---------------------------- MODULE Spec2Model ----------------------------
(***************************************************************************)
(* Model of the Klocwork web API client (src/lib/klocwork/webapi.py):      *)
(* the token store reader get_token, the serial fetch, the thread-pool     *)
(* multifetch and KlocworkWebApi.get_klocwork_issues.                       *)
(*                                                                         *)
(* Python and JSON scalars are pairs <<tag, text>>: <<"str", "1">> is the  *)
(* string "1", <<"int", "1">> the number 1, <<"null", "">> JSON null and   *)
(* <<"none", "">> Python's None.  A dict is a function on its keys.        *)
(***************************************************************************)
EXTENDS Integers, Sequences, FiniteSets, Bags, TLC

VARIABLES
    \* ---- get_token ----
    ltoken_file,     \* lines of ~/.klocwork/ltoken, each already split on ';'
    host,            \* get_token argument
    port,            \* get_token argument (an int)
    preferred_user,  \* get_token argument
    token_result,    \* what get_token returned, <<ltoken, user>>
    \* ---- transport and worker pool ----
    server,          \* the remote API: wire request -> response of this run
    params,          \* the parameter dicts given to multifetch, as given
    common,          \* the common parameter dict
    threads,         \* size of the ThreadPool (0: no pool created)
    taskq,           \* tasks not yet picked up by a worker, in dispatch order
    running,         \* bag of tasks a worker is fetching right now
    outq,            \* results of finished tasks, in completion order
    calls,           \* bag of the wire requests handed to urlopen so far
    consumed,        \* number of results the caller took from the iterator
    \* ---- callers ----
    pc,              \* position of the calling (orchestrating) thread
    yielded,         \* bag of the results a plain loop over multifetch got
    issues_table,    \* get_klocwork_issues: the issue table
    merged,          \* the detail responses merged so far, in merge order
    returned,        \* the value get_klocwork_issues returned
    error            \* the exception that left the caller, or "none"

vars == <<ltoken_file, host, port, preferred_user, token_result,
          server, params, common, threads, taskq, running, outq, calls,
          consumed, pc, yielded, issues_table, merged,
          returned, error>>

tokenVars == <<ltoken_file, host, port, preferred_user, token_result>>
poolVars  == <<server, params, common, threads, taskq, running, outq, calls,
               consumed>>
issueVars == <<issues_table, merged, returned>>

(***************************************************************************)
(* Bounds of the model.                                                    *)
(***************************************************************************)
MaxLines   == 2    \* lines in the credential file
MaxIssues  == 2    \* records in the search response
MaxParams  == 2    \* length of a mixed parameter sequence given to multifetch
MaxUniform == 21   \* length of a sequence of equal parameter dicts

MAX_PARALLEL_FETCH_COUNT == 20

(***************************************************************************)
(* Python values.                                                          *)
(***************************************************************************)
JStr(s) == <<"str", s>>
JInt(s) == <<"int", s>>
JNull   == <<"null", "">>
PyNone  == <<"none", "">>

\* str(v) of a string or a number: the text, as a string.
PyStr(v) == <<"str", v[2]>>

\* Python truth value of a scalar: None, null and the empty string are false.
Falsy(v) == v[1] \in {"none", "null"} \/ (v[1] = "str" /\ v[2] = "")

EmptyDict == <<>>

\* a.update(b): the keys of both, b's values winning.
Update(a, b) ==
    [k \in (DOMAIN a) \cup (DOMAIN b) |-> IF k \in DOMAIN b THEN b[k] ELSE a[k]]

Min(a, b) == IF a < b THEN a ELSE b

SeqsUpTo(S, n) == UNION {[1..m -> S] : m \in 0..n}

(***************************************************************************)
(* get_token                                                               *)
(***************************************************************************)
Hosts == {"kw", "kw.corp", "db.corp"}

\* socket.getfqdn of this run's resolver: the short name "kw" resolves to
\* "kw.corp", fully qualified names resolve to themselves.
Getfqdn(h) == IF h = "kw" THEN "kw.corp" ELSE h

Ports == {80, 8080}

\* str(port) of an int.
PortStr(p) == IF p = 80 THEN "80" ELSE "8080"

FilePorts == {"80", "8080", "080"}
Users     == {"alice", "bob"}

\* The token field of line i: every line of the file carries its own token.
TokenOf(i) == <<"t1", "t2", "t3", "t4">>[i]

\* One line after entry.strip().split(';'): <<host, port, user, token>>.
Lines(i) == {<<h, p, u, TokenOf(i)>> : h \in Hosts, p \in FilePorts, u \in Users}

CredentialFiles ==
    UNION {{f \in [1..m -> UNION {Lines(i) : i \in 1..m}] :
                \A i \in 1..m : f[i] \in Lines(i)} : m \in 0..MaxLines}

PreferredUsers == {PyNone, JStr("")} \cup {JStr(u) : u \in Users}

\* Mutation of HostPortMatch: the port is not compared.
HostPortMatchAnyPort(values, h, p) ==
    Getfqdn(values[1]) = Getfqdn(h)

\* The condition of webapi.py:48.
HostPortMatch(values, h, p) ==
    Getfqdn(values[1]) = Getfqdn(h) /\ values[2] = PortStr(p)

\* The condition of webapi.py:49 that skips a line.
UserSkip(values, pu) == ~Falsy(pu) /\ JStr(values[3]) # pu

\* The for loop of get_token from line i on.
RECURSIVE ScanFrom(_, _, _, _, _)
ScanFrom(file, i, h, p, pu) ==
    IF i > Len(file) THEN <<PyNone, PyNone>>
    ELSE IF HostPortMatch(file[i], h, p) /\ ~UserSkip(file[i], pu)
         THEN <<JStr(file[i][4]), JStr(file[i][3])>>
         ELSE ScanFrom(file, i + 1, h, p, pu)

get_token(file, h, p, pu) == ScanFrom(file, 1, h, p, pu)

(***************************************************************************)
(* Transport, fetch and multifetch                                         *)
(***************************************************************************)
FailResponse == [ok |-> FALSE, body |-> <<>>]
OkResponse(records) == [ok |-> TRUE, body |-> records]

\* urllib.urlencode(params): every value goes on the wire as its str().
Urlencode(p) == [k \in DOMAIN p |-> PyStr(p[k])]

\* urllib2.urlopen on the encoded request, and the decoding of the lines of
\* its body; a failed transport is the response FailResponse.  A request the
\* server knows nothing about is answered with an HTTP error.
Urlopen(p) ==
    IF Urlencode(p) \in DOMAIN server THEN server[Urlencode(p)] ELSE FailResponse

\* fetch(url, params, common_params), webapi.py:73.
fetch(p, c) == Urlopen(Update(p, c))

\* MultiFetchHelper.fetch(params), webapi.py:99.
HelperFetch(p) == Urlopen(p)

\* Mutation of UpdateAll: the common parameters are left out.
UpdateAllNoCommon(ps, c) == ps

\* The loop "for p in params: p.update(common_params)" of multifetch: the
\* dicts the tasks carry.
UpdateAll(ps, c) == [i \in DOMAIN ps |-> Update(ps[i], c)]

\* Mutation of PoolSize: one thread per request, without the cap.
PoolSizeUnbounded(ps) == Len(ps)

\* threads = min(len(params), MAX_PARALLEL_FETCH_COUNT)
PoolSize(ps) == Min(Len(ps), MAX_PARALLEL_FETCH_COUNT)

Range(s) == {s[i] : i \in DOMAIN s}
SeqToBag(s) == [x \in Range(s) |-> Cardinality({i \in DOMAIN s : s[i] = x})]
One(x) == SetToBag({x})

\* multifetch(url, params, common_params): the state it leaves behind when it
\* returns.  With no request it returns [] and creates no pool.
Multifetch(ps, c) ==
    /\ params' = ps
    /\ common' = c
    /\ threads' = PoolSize(ps)
    /\ taskq' = IF PoolSize(ps) > 0 THEN UpdateAll(ps, c) ELSE <<>>
    /\ running' = EmptyBag
    /\ outq' = <<>>
    /\ consumed' = 0

\* A free worker thread of the pool takes the next task and opens its URL.
StartTask ==
    /\ taskq # <<>>
    /\ BagCardinality(running) < threads
    /\ running' = running (+) One(Head(taskq))
    /\ taskq' = Tail(taskq)
    /\ calls' = calls (+) One(Urlencode(Head(taskq)))
    /\ UNCHANGED <<server, params, common, threads, outq, consumed>>
    /\ UNCHANGED <<tokenVars, issueVars, pc, yielded, error>>

\* A worker's MultiFetchHelper.fetch returns or raises; the pool queues the
\* outcome for the iterator, in completion order.
CompleteTask ==
    \E t \in BagToSet(running) :
        /\ running' = running (-) One(t)
        /\ outq' = Append(outq, HelperFetch(t))
        /\ UNCHANGED <<server, params, common, threads, taskq, calls, consumed>>
        /\ UNCHANGED <<tokenVars, issueVars, pc, yielded, error>>

\* The iterator has a result to hand out.
HasNext == outq # <<>>
\* Mutation of Exhausted: the loop ends as soon as no result is waiting.
ExhaustedWhenIdle == outq = <<>>

\* The iterator is exhausted: [] when no pool was made, else all k results out.
Exhausted == consumed = Len(params)

\* Mutation of ResultRaises: a failed task counts as an empty response.
ResultRaisesNever(res) == FALSE

\* Whether next() of the iterator raises for this result: the worker's
\* exception is raised again in the caller.
ResultRaises(res) == ~res.ok

(***************************************************************************)
(* A caller that loops over multifetch(url, params, common_params).        *)
(***************************************************************************)
ParamChoices ==
    { [id |-> JStr("1")],
      [id |-> JInt("2")],
      [id |-> JStr("1"), user |-> JStr("mallory")] }

Commons == { EmptyDict, [user |-> JStr("alice"), ltoken |-> JStr("t1")] }

ParamSeqs ==
    SeqsUpTo(ParamChoices, MaxParams)
      \cup {[i \in 1..n |-> p] : n \in 1..MaxUniform, p \in ParamChoices}

\* What the server may answer to wire request w: a failure, nothing, or one
\* record that echoes the request.
MFResponses(w) == {FailResponse, OkResponse(<<>>), OkResponse(<<w>>)}

WireRequestsOf(ps, c) == {Urlencode(Update(ps[i], c)) : i \in DOMAIN ps}

NoToken == /\ ltoken_file = <<>>
           /\ host = "kw"
           /\ port = 80
           /\ preferred_user = PyNone
           /\ token_result = "pending"

NoIssues == /\ issues_table = EmptyDict
            /\ merged = <<>>
            /\ returned = "nothing"

MFInit ==
    /\ NoToken
    /\ NoIssues
    /\ params \in ParamSeqs
    /\ common \in Commons
    /\ \E dom \in {WireRequestsOf(params, common)} :
          server \in {f \in [dom -> UNION {MFResponses(w) : w \in dom}] :
                         \A w \in dom : f[w] \in MFResponses(w)}
    /\ threads = 0
    /\ taskq = <<>>
    /\ running = EmptyBag
    /\ outq = <<>>
    /\ calls = EmptyBag
    /\ consumed = 0
    /\ pc = "call"
    /\ yielded = EmptyBag
    /\ error = "none"

CallMultifetch ==
    /\ pc = "call"
    /\ Multifetch(params, common)
    /\ pc' = "iterate"
    /\ UNCHANGED <<server, calls, tokenVars, issueVars, yielded, error>>

\* next() of the iterator gives a result, or raises the worker's exception.
IterNext ==
    /\ pc = "iterate"
    /\ HasNext
    /\ outq' = Tail(outq)
    /\ consumed' = consumed + 1
    /\ IF ResultRaises(Head(outq))
       THEN /\ pc' = "error"
            /\ error' = "URLError"
            /\ UNCHANGED yielded
       ELSE /\ yielded' = yielded (+) One(Head(outq).body)
            /\ UNCHANGED <<pc, error>>
    /\ UNCHANGED <<server, params, common, threads, taskq, running, calls>>
    /\ UNCHANGED <<tokenVars, issueVars>>

IterStop ==
    /\ pc = "iterate"
    /\ Exhausted
    /\ pc' = "done"
    /\ UNCHANGED <<poolVars, tokenVars, issueVars, yielded, error>>

MFNext == CallMultifetch \/ StartTask \/ CompleteTask \/ IterNext \/ IterStop

SpecMF == MFInit /\ [][MFNext]_vars

(***************************************************************************)
(* KlocworkWebApi.__init__ and get_token                                   *)
(***************************************************************************)
NoPool ==
    /\ server = EmptyDict
    /\ params = <<>>
    /\ common = EmptyDict
    /\ threads = 0
    /\ taskq = <<>>
    /\ running = EmptyBag
    /\ outq = <<>>
    /\ calls = EmptyBag
    /\ consumed = 0

TokenInit ==
    /\ ltoken_file \in CredentialFiles
    /\ host \in Hosts
    /\ port \in Ports
    /\ preferred_user \in PreferredUsers
    /\ token_result = "pending"
    /\ NoPool
    /\ NoIssues
    /\ pc = "init"
    /\ yielded = EmptyBag
    /\ error = "none"

\* KlocworkWebApi.__init__: self.ltoken, self.user = get_token(...), and a
\* RuntimeError when no token was found.
Construct ==
    /\ pc = "init"
    /\ token_result' = get_token(ltoken_file, host, port, preferred_user)
    /\ IF Falsy(token_result'[1])
       THEN pc' = "error" /\ error' = "RuntimeError"
       ELSE pc' = "ready" /\ UNCHANGED error
    /\ UNCHANGED <<ltoken_file, host, port, preferred_user>>
    /\ UNCHANGED <<poolVars, issueVars, yielded>>

TokenNext == Construct

SpecToken == TokenInit /\ [][TokenNext]_vars

(***************************************************************************)
(* KlocworkWebApi.get_klocwork_issues                                      *)
(***************************************************************************)
Project == "p1"
Build   == "b1"

\* common = {'user': self.user, 'ltoken': self.ltoken}
CommonOf(tr) == [user |-> tr[2], ltoken |-> tr[1]]

SearchParams ==
    [action |-> JStr("search"), project |-> JStr(Project), build |-> JStr(Build)]

DetailRequest(issue) ==
    [action |-> JStr("issue_details"), project |-> JStr(Project), id |-> issue.id]

\* issue_details_requests: one request per record of the search response.
BuildRequests(response) == [i \in DOMAIN response |-> DetailRequest(response[i])]

\* The key under which the search loop files an issue: str(issue['id']).
TableKey(issue) == PyStr(issue.id)

\* issues_table after the search loop over response[1..n]; a later record
\* with the same key replaces an earlier one.
RECURSIVE BuildTable(_, _)
BuildTable(response, n) ==
    IF n = 0 THEN EmptyDict
    ELSE Update(BuildTable(response, n - 1),
                [k \in {TableKey(response[n])} |-> response[n]])

\* The key the merge loop looks up: r['id'] as it is.
LookupKey(r) == r.id

\* Mutation of MergeRecord: the record is merged into every entry.
MergeRecordIntoAll(table, r) == [k \in DOMAIN table |-> Update(table[k], r)]

\* issues_table[r['id']].update(r) on a table that holds the key.
MergeRecord(table, r) ==
    [table EXCEPT ![LookupKey(r)] = Update(table[LookupKey(r)], r)]

\* Mutation of MergeFrom: a record with an unknown id is skipped.
RECURSIVE MergeFromSkipping(_, _, _)
MergeFromSkipping(table, response, n) ==
    IF n > Len(response) THEN [table |-> table, keyerror |-> FALSE]
    ELSE IF LookupKey(response[n]) \notin DOMAIN table
         THEN MergeFromSkipping(table, response, n + 1)
         ELSE MergeFromSkipping(MergeRecord(table, response[n]), response, n + 1)

\* "for r in response: issues_table[r['id']].update(r)" from record n on:
\* the table it leaves and whether a KeyError ended it.
RECURSIVE MergeFrom(_, _, _)
MergeFrom(table, response, n) ==
    IF n > Len(response) THEN [table |-> table, keyerror |-> FALSE]
    ELSE IF LookupKey(response[n]) \notin DOMAIN table
         THEN [table |-> table, keyerror |-> TRUE]
         ELSE MergeFrom(MergeRecord(table, response[n]), response, n + 1)

MergeResponse(table, response) == MergeFrom(table, response, 1)

\* issue.get('history', [{}])
HistoryOf(issue) ==
    IF "history" \in DOMAIN issue THEN issue.history ELSE <<EmptyDict>>

\* ...[0] raises IndexError on an empty list.
DeriveRaises(issue) == Len(HistoryOf(issue)) = 0

\* issue.get('history', [{}])[0].get('comment', '')
CommentOf(issue) ==
    LET first == HistoryOf(issue)[1]
    IN  IF "comment" \in DOMAIN first THEN first.comment ELSE JStr("")

\* Mutation of DispositionedOf: "and" in place of "or".
DispositionedAnd(comment, code) ==
    IF Falsy(comment) /\ code = "Analyze" THEN "no" ELSE "yes"

\* if not issue['comment'] or issue['code'] == 'Analyze': 'no' else 'yes'
DispositionedOf(comment, code) ==
    IF Falsy(comment) \/ code = "Analyze" THEN "no" ELSE "yes"

\* os.path.normpath on the segments of a path: "." dropped, ".." resolved.
RECURSIVE NormSegs(_, _)
NormSegs(done, todo) ==
    IF todo = <<>> THEN done
    ELSE IF Head(todo) = "." THEN NormSegs(done, Tail(todo))
    ELSE IF Head(todo) = ".." /\ done # <<>>
         THEN NormSegs(SubSeq(done, 1, Len(done) - 1), Tail(todo))
    ELSE NormSegs(Append(done, Head(todo)), Tail(todo))

\* With project_root None: normpath, then every separator becomes '/'.
LocationOf(location) == [sep |-> "/", segs |-> NormSegs(<<>>, location.segs)]

\* The body of the assembly loop for one issue that does not raise.
Derive(issue) ==
    Update(issue,
           [comment |-> CommentOf(issue),
            dispositioned |-> DispositionedOf(CommentOf(issue), issue.code),
            location |-> LocationOf(issue.location)])

Values(table) ==
    [r \in {table[k] : k \in DOMAIN table} |->
        Cardinality({k \in DOMAIN table : table[k] = r})]

(***************************************************************************)
(* The server of one run: its answer to the search and to every detail     *)
(* request the search can lead to.                                         *)
(***************************************************************************)
Ids == {JInt("1"), JStr("1"), JStr("2")}
Codes == {"Analyze", "Fix"}
Histories ==
    { <<>>,
      <<[date |-> "d1"]>>,
      <<[comment |-> JStr("")]>>,
      <<[comment |-> JStr("fixed")]>>,
      <<[comment |-> JNull]>>,
      <<[comment |-> JStr("fixed")], [comment |-> JStr("")]>>,
      <<[comment |-> JStr("")], [comment |-> JStr("fixed")]>> }
Location == [sep |-> "\\", segs |-> <<"src", ".", "lib", "..", "a.c">>]

\* The search records of a run; they differ in their ids and share the code
\* and the history, which may be absent.
BaseRecords(c) == {[id |-> i, code |-> c, location |-> Location] : i \in Ids}
SearchBodies ==
    UNION {SeqsUpTo(BaseRecords(c), MaxIssues) : c \in Codes}
      \cup UNION {SeqsUpTo({Update(r, [history |-> h]) : r \in BaseRecords(c)},
                           MaxIssues) : c \in Codes, h \in Histories}

OtherId(w) == IF w = "1" THEN "2" ELSE "1"

\* What the server may answer to the detail request for wire id w.
DetailResponses(w) ==
    {FailResponse, OkResponse(<<>>)}
      \cup {OkResponse(<<[id |-> i, severity |-> s]>>) :
               i \in {JInt(w), JStr(w), JStr(OtherId(w))}, s \in {"High", "Low"}}

TheToken == <<JStr("t1"), JStr("alice")>>

SearchWire == Urlencode(Update(SearchParams, CommonOf(TheToken)))
DetailWire(issue) ==
    Urlencode(Update(DetailRequest(issue), CommonOf(TheToken)))

Servers ==
    UNION { {f \in [{SearchWire} \cup {DetailWire(body[i]) : i \in DOMAIN body}
                      -> {OkResponse(body)}
                           \cup UNION {DetailResponses(w) : w \in {"1", "2"}}] :
                /\ f[SearchWire] = OkResponse(body)
                /\ \A i \in DOMAIN body :
                      f[DetailWire(body[i])] \in DetailResponses(body[i].id[2])}
            : body \in SearchBodies }
      \cup {[w \in {SearchWire} |-> FailResponse]}

IssueInit ==
    /\ ltoken_file = <<<<"kw", "80", "alice", "t1">>>>
    /\ host = "kw"
    /\ port = 80
    /\ preferred_user = PyNone
    /\ token_result = TheToken
    /\ server \in Servers
    /\ params = <<>>
    /\ common = EmptyDict
    /\ threads = 0
    /\ taskq = <<>>
    /\ running = EmptyBag
    /\ outq = <<>>
    /\ calls = EmptyBag
    /\ consumed = 0
    /\ pc = "search"
    /\ yielded = EmptyBag
    /\ NoIssues
    /\ error = "none"

\* Lines 164-185: the search, the table, the requests, the multifetch call.
Search ==
    /\ pc = "search"
    /\ LET c == CommonOf(token_result)
           response == fetch(SearchParams, c)
       IN  /\ calls' = calls (+) One(Urlencode(Update(SearchParams, c)))
           /\ IF response.ok
              THEN /\ issues_table' = BuildTable(response.body, Len(response.body))
                   /\ Multifetch(BuildRequests(response.body), c)
                   /\ pc' = "details"
                   /\ UNCHANGED error
              ELSE /\ pc' = "error"
                   /\ error' = "URLError"
                   /\ UNCHANGED <<issues_table, params, common, threads, taskq,
                                  running, outq, consumed>>
    /\ UNCHANGED <<server, tokenVars, merged, returned, yielded>>

\* Lines 186-188: one turn of the loop over the detail iterator.
MergeNext ==
    /\ pc = "details"
    /\ HasNext
    /\ outq' = Tail(outq)
    /\ consumed' = consumed + 1
    /\ IF ResultRaises(Head(outq))
       THEN /\ pc' = "error"
            /\ error' = "URLError"
            /\ UNCHANGED <<issues_table, merged>>
       ELSE LET m == MergeResponse(issues_table, Head(outq).body)
            IN  /\ issues_table' = m.table
                /\ merged' = Append(merged, Head(outq).body)
                /\ IF m.keyerror
                   THEN pc' = "error" /\ error' = "KeyError"
                   ELSE UNCHANGED <<pc, error>>
    /\ UNCHANGED <<server, params, common, threads, taskq, running, calls>>
    /\ UNCHANGED <<tokenVars, returned, yielded>>

\* Lines 190-208, once the detail iterator is exhausted.  The loop raises
\* IndexError at the first issue with an empty history, whatever the order
\* of values(); the records it changed before are lost with the table.
Assemble ==
    /\ pc = "details"
    /\ Exhausted
    /\ IF \E k \in DOMAIN issues_table : DeriveRaises(issues_table[k])
       THEN /\ pc' = "error"
            /\ error' = "IndexError"
            /\ UNCHANGED <<issues_table, returned>>
       ELSE /\ issues_table' = [k \in DOMAIN issues_table |-> Derive(issues_table[k])]
            /\ returned' = Values(issues_table')
            /\ pc' = "done"
            /\ UNCHANGED error
    /\ UNCHANGED <<poolVars, tokenVars, merged, yielded>>

Next == Search \/ StartTask \/ CompleteTask \/ MergeNext \/ Assemble

Spec == IssueInit /\ [][Next]_vars

(***************************************************************************)
(* Vocabulary of the properties                                            *)
(***************************************************************************)
SearchDone == pc # "search"
SearchOk   == server[SearchWire].ok
SearchBody == server[SearchWire].body

\* The table as the search phase built it.
Table0 == BuildTable(SearchBody, Len(SearchBody))

\* The server's answer to the i-th detail request.
AnswerTo(i) == Urlopen(Update(params[i], common))

\* The records of all detail responses merged so far.
MergedRecords == UNION {Range(merged[n]) : n \in DOMAIN merged}

RECURSIVE MergeAll(_, _, _)
MergeAll(table, responses, n) ==
    IF n = 0 THEN table
    ELSE MergeResponse(MergeAll(table, responses, n - 1), responses[n]).table

DeriveAll(table) == [k \in DOMAIN table |-> Derive(table[k])]

Carries(entry, r) == \A f \in DOMAIN r : f \in DOMAIN entry /\ entry[f] = r[f]

\* Every detail response holds only records with the very id of its request.
EchoOnly ==
    \A i \in DOMAIN params :
        \A r \in Range(AnswerTo(i).body) : r.id = params[i].id

(***************************************************************************)
(* C1: whenever the detail response to the request built for id i holds a  *)
(* record whose id is i, the merge finds the table entry of i (no          *)
(* KeyError) and the entry then carries every field of the detail record.  *)
(***************************************************************************)
C1_MergeFindsEntry ==
    (SearchDone /\ SearchOk /\ EchoOnly) =>
        /\ error # "KeyError"
        /\ \A r \in MergedRecords :
              /\ TableKey(r) \in DOMAIN issues_table
              /\ Carries(issues_table[TableKey(r)], r)

(***************************************************************************)
(* C2: the derived comment of every assembled issue is the comment of the  *)
(* first history element when there is one, "" in every other case, and an *)
(* issue with an empty history is assembled without error.                 *)
(***************************************************************************)
ClaimedComment(r) ==
    IF "history" \in DOMAIN r /\ Len(r.history) > 0
       /\ "comment" \in DOMAIN r.history[1]
    THEN r.history[1].comment
    ELSE JStr("")

C2_CommentDerived ==
    /\ error # "IndexError"
    /\ pc = "done" =>
          \A r \in BagToSet(returned) : r.comment = ClaimedComment(r)

ExpectedWire(p) ==
    [k \in (DOMAIN p) \cup (DOMAIN common) |->
        PyStr(IF k \in DOMAIN common THEN common[k] ELSE p[k])]

ExpectedCalls == SeqToBag([i \in DOMAIN params |-> ExpectedWire(params[i])])

SerialResults == SeqToBag([i \in DOMAIN params |-> fetch(params[i], common).body])

C5_InFlightBounded ==
    /\ BagCardinality(running) <= Min(Len(params), MAX_PARALLEL_FETCH_COUNT)
    /\ Len(params) = 0 =>
          threads = 0 /\ calls = EmptyBag /\ yielded = EmptyBag /\ outq = <<>>

C5_Witness ==
    /\ BagCardinality(running) = MAX_PARALLEL_FETCH_COUNT
    /\ taskq # <<>>

(***************************************************************************)
(* C6: a detail record whose id is no key of the issue table ends          *)
(* get_klocwork_issues in an error: it is neither dropped nor merged as a  *)
(* new entry, and the key set of the table stays the one the search built. *)
(***************************************************************************)
UnknownIdServed ==
    \E i \in DOMAIN params :
        \E r \in Range(AnswerTo(i).body) : LookupKey(r) \notin DOMAIN Table0

C6_UnknownIdIsError ==
    (SearchDone /\ SearchOk) =>
        /\ DOMAIN issues_table = DOMAIN Table0
        /\ UnknownIdServed => (pc # "done" /\ returned = "nothing")
        /\ (\E r \in MergedRecords : LookupKey(r) \notin DOMAIN Table0)
              => (pc = "error" /\ error = "KeyError")

C6_Witness ==
    /\ pc = "error"
    /\ error = "KeyError"
    /\ DOMAIN issues_table = {JStr("1")}
    /\ \E r \in MergedRecords : r.id = JStr("2")

(***************************************************************************)
(* C7: if any transport call fails, the search call or a detail call,      *)
(* get_klocwork_issues returns no issue records, and no request is made a  *)
(* second time.                                                            *)
(***************************************************************************)
FailedCall == \E w \in BagToSet(calls) : ~server[w].ok

TimesRequested(w) ==
    IF w = SearchWire THEN 1
    ELSE Cardinality({i \in DOMAIN params : ExpectedWire(params[i]) = w})

C7_FailureIsFatal ==
    /\ FailedCall => (pc # "done" /\ returned = "nothing")
    /\ \A w \in BagToSet(calls) : CopiesIn(w, calls) <= TimesRequested(w)

C7_Witness ==
    /\ pc = "error"
    /\ error = "URLError"
    /\ MergedRecords # {}
    /\ returned = "nothing"

(***************************************************************************)
(* C8: get_token returns the token and user of the first line, in file     *)
(* order, whose normalized host equals the normalized query host, whose    *)
(* port string equals the query port and, when a preferred user is given,  *)
(* whose user equals it; (None, None) when no line matches.                *)
(***************************************************************************)
UserGiven == preferred_user \notin {PyNone, JStr("")}

Matching ==
    {i \in DOMAIN ltoken_file :
        /\ Getfqdn(ltoken_file[i][1]) = Getfqdn(host)
        /\ JStr(ltoken_file[i][2]) = PyStr(JInt(PortStr(port)))
        /\ UserGiven => JStr(ltoken_file[i][3]) = preferred_user}

C8_FirstMatchingLine ==
    token_result # "pending" =>
        IF Matching = {}
        THEN token_result = <<PyNone, PyNone>>
        ELSE \E i \in Matching :
                /\ \A j \in Matching : i <= j
                /\ token_result = <<JStr(ltoken_file[i][4]), JStr(ltoken_file[i][3])>>

C8_Witness ==
    /\ token_result # "pending"
    /\ Len(ltoken_file) = 2
    /\ Matching = {2}
    /\ Getfqdn(ltoken_file[1][1]) = Getfqdn(host)
    /\ ltoken_file[1][2] = PortStr(port)
    /\ ltoken_file[1][1] # host
    /\ token_result[1] = JStr("t2")

(***************************************************************************)
(* C9 as stated: no detail record is merged into the issue table while     *)
(* another detail task of the batch is still running or not yet started.   *)
(***************************************************************************)
C9_MergeOnlyAfterAllTasks ==
    MergedRecords # {} => (taskq = <<>> /\ running = EmptyBag)

(***************************************************************************)
(* C9 amended: the table is changed only by the orchestrating thread, one  *)
(* task result at a time as the iterator yields it (it is always the       *)
(* search table with the results taken so far merged in, whatever the      *)
(* workers have finished meanwhile), and the assembly and the return come  *)
(* only after every dispatched task has completed and been merged.         *)
(***************************************************************************)
C9_AssembleOnlyAfterAllTasks ==
    /\ pc = "details" =>
          issues_table = MergeAll(Table0, merged, Len(merged))
    /\ pc = "done" =>
          /\ taskq = <<>> /\ running = EmptyBag /\ outq = <<>>
          /\ Len(merged) = Len(params)

C9_Witness ==
    /\ pc = "details"
    /\ MergedRecords # {}
    /\ running # EmptyBag

(***************************************************************************)
(* C10 as stated: for the same search response and the same detail         *)
(* responses, every order of merging them gives the same final table.      *)
(***************************************************************************)
Reordered(perm) == [n \in DOMAIN merged |-> merged[perm[n]]]

OrderIndependent ==
    \A perm \in Permutations(DOMAIN merged) :
        issues_table = DeriveAll(MergeAll(Table0, Reordered(perm), Len(merged)))

C10_AnyOrderSameTable == pc = "done" => OrderIndependent

(***************************************************************************)
(* C10 amended: when the responses of different detail tasks hold records  *)
(* for disjoint sets of ids, every order of merging them gives the same    *)
(* final table.                                                            *)
(***************************************************************************)
IdsOf(response) == {LookupKey(r) : r \in Range(response)}

DisjointIds ==
    \A m, n \in DOMAIN merged : m # n => IdsOf(merged[m]) \cap IdsOf(merged[n]) = {}

C10_DisjointOrderSameTable == (pc = "done" /\ DisjointIds) => OrderIndependent

C10_Witness ==
    /\ pc = "done"
    /\ DisjointIds
    /\ Len(merged) = 2
    /\ \E r1 \in Range(merged[1]), r2 \in Range(merged[2]) :
          r1.severity # r2.severity

=============================================================================
